---- MODULE Spec2Model ----
(***************************************************************************)
(* Background Remover (app.py): the model session kept in                  *)
(* st.session_state, load_model, process_single_image, create_zip_file    *)
(* and the script run of main(): start-up checks, the single-image tab    *)
(* and the batch tab with its per-item loop and ZIP packaging.             *)
(*                                                                         *)
(* A file name is a tuple of one-character strings.  None is the empty    *)
(* tuple and Some(x) the one-element tuple, for Python's optional values.  *)
(***************************************************************************)
EXTENDS Integers, Sequences, FiniteSets, TLC

\* ---------------------------------------------------------------- bounds
NumUsers == 2
MaxBatch == 2
MaxCreate == 2
MaxNameLen == 4

Users == 1..NumUsers

None == <<>>
Some(x) == <<x>>

\* ------------------------------------------------------------ file names
Alphabet == {"a", "b", "."}

SeqsUpTo(S, n) == UNION {[1..k -> S] : k \in 0..n}

\* the uploaders accept names that end in one of their type extensions
\* (two of the three, spelled out)
Extensions == {<<".", "p", "n", "g">>, <<".", "j", "p", "g">>}

\* a stem starts with a letter and does not end in a dot
Stems ==
  {s \in SeqsUpTo(Alphabet, MaxNameLen) :
     s # <<>> /\ s[1] # "." /\ s[Len(s)] # "."}

AllNames == {stem \o ext : stem \in Stems, ext \in Extensions}

\* names uploaded in the script runs: one plain, one with two dots
FileNames == {<<"a", ".", "j", "p", "g">>, <<"a", ".", "b", ".", "j", "p", "g">>}

Prefix == <<"n", "o", "_", "b", "g", "_">>
PngSuffix == <<".", "p", "n", "g">>

\* str.rfind: the last position of c in s, 0 when absent (1-based)
RFind(s, c) ==
  LET hits == {k \in 1..Len(s) : s[k] = c}
  IN IF hits = {} THEN 0 ELSE CHOOSE k \in hits : \A m \in hits : m <= k

\* str.find: the first position of c in s, 0 when absent (1-based)
Find(s, c) ==
  LET hits == {k \in 1..Len(s) : s[k] = c}
  IN IF hits = {} THEN 0 ELSE CHOOSE k \in hits : \A m \in hits : k <= m

\* os.path.splitext(p)[0]: cut at the last dot, unless only dots precede it
\* in the last path component
splitext_root(p) ==
  LET sepIndex == RFind(p, "/")
      dotIndex == RFind(p, ".")
  IN IF /\ dotIndex > sepIndex
        /\ \E k \in (sepIndex + 1)..(dotIndex - 1) : p[k] # "."
     THEN SubSeq(p, 1, dotIndex - 1)
     ELSE p

\* p.split('.')[0]: everything before the first dot
split_first(p) ==
  LET dotIndex == Find(p, ".")
  IN IF dotIndex = 0 THEN p ELSE SubSeq(p, 1, dotIndex - 1)

\* the archive entry name of create_zip_file
zip_entry_name(original_filename) ==
  Prefix \o splitext_root(original_filename) \o PngSuffix

\* the file_name of the single-image download button
single_download_name(name) ==
  Prefix \o split_first(name) \o PngSuffix

\* ------------------------------------------------------- external services
\* Image.open: the upload is corrupt, or decodes to an image of some mode
Modes == {"RGB", "RGBA", "I;16"}
DecodeOutcomes == {"corrupt"} \cup Modes

\* image.convert('RGB'): raises for a mode it has no conversion for
convert_raises(mode) == mode = "I;16"

\* rembg.remove: raises, or returns an image that PNG-encodes or does not
RemoveOutcomes == {"model_error", "ok", "ok_unencodable"}

Err(tag, name) == [tag |-> tag, name |-> name]

\* ------------------------------------------------------------- load_model
\* ss: this user session's st.session_state; avail: REMBG_AVAILABLE;
\* new_ok: new_session("u2net") returns (TRUE) or raises; handle: the
\* session object it returns
load_model_always_new(ss, avail, new_ok, handle) ==
  IF ~avail
  THEN [ret |-> FALSE, ss |-> ss, created |-> FALSE, errors |-> <<>>]
  ELSE IF new_ok
       THEN [ret |-> TRUE, ss |-> [model_loaded |-> TRUE, session |-> handle],
             created |-> TRUE, errors |-> <<>>]
       ELSE [ret |-> FALSE, ss |-> ss, created |-> FALSE,
             errors |-> <<Err("load_model_failed", None)>>]

load_model(ss, avail, new_ok, handle) ==
  IF ~avail
  THEN [ret |-> FALSE, ss |-> ss, created |-> FALSE, errors |-> <<>>]
  ELSE IF ss.session = None
       THEN IF new_ok
            THEN [ret |-> TRUE,
                  ss |-> [model_loaded |-> TRUE, session |-> handle],
                  created |-> TRUE, errors |-> <<>>]
            ELSE [ret |-> FALSE, ss |-> ss, created |-> FALSE,
                  errors |-> <<Err("load_model_failed", None)>>]
       ELSE [ret |-> TRUE, ss |-> ss, created |-> FALSE, errors |-> <<>>]

\* --------------------------------------------------- process_single_image
\* image: [src, mode]; out: what rembg.remove does when it is called.
\* ret is None or Some(processed image); call records the call of remove
NoCall == [called |-> FALSE, session |-> None, mode |-> "-"]

RemoveCall(session, mode) == [called |-> TRUE, session |-> session, mode |-> mode]

\* the try block: exc is TRUE when it ends in an exception.  Without the
\* rembg import the name `remove` is unbound and using it raises
psi_try_unguarded(lm, avail, image, out) ==
  IF image.mode # "RGB" /\ convert_raises(image.mode)
  THEN [ret |-> None, call |-> NoCall, exc |-> TRUE]
  ELSE IF ~avail
       THEN [ret |-> None, call |-> NoCall, exc |-> TRUE]
       ELSE IF out = "model_error"
            THEN [ret |-> None, call |-> RemoveCall(lm.ss.session, "RGB"),
                  exc |-> TRUE]
            ELSE [ret |-> Some([src |-> image.src, encodable |-> out = "ok"]),
                  call |-> RemoveCall(lm.ss.session, "RGB"), exc |-> FALSE]

psi_try(lm, avail, image, out) ==
  IF ~lm.ret
  THEN [ret |-> None, call |-> NoCall, exc |-> FALSE]
  ELSE IF image.mode # "RGB" /\ convert_raises(image.mode)
       THEN [ret |-> None, call |-> NoCall, exc |-> TRUE]
       ELSE IF out = "model_error"
            THEN [ret |-> None, call |-> RemoveCall(lm.ss.session, "RGB"),
                  exc |-> TRUE]
            ELSE [ret |-> Some([src |-> image.src, encodable |-> out = "ok"]),
                  call |-> RemoveCall(lm.ss.session, "RGB"), exc |-> FALSE]

\* the except clause turns every exception of the try block into None
process_single_image(ss, avail, new_ok, handle, image, out) ==
  LET lm == load_model(ss, avail, new_ok, handle)
      t == psi_try(lm, avail, image, out)
  IN [ret |-> IF t.exc THEN None ELSE t.ret,
      ss |-> lm.ss, created |-> lm.created,
      load |-> [had |-> ss.session # None, ret |-> lm.ret,
                same |-> lm.ss.session = ss.session, created |-> lm.created],
      call |-> t.call, exc |-> t.exc,
      errors |-> lm.errors \o
                 (IF t.exc THEN <<Err("processing_error", None)>> ELSE <<>>)]

\* -------------------------------------------------------- create_zip_file
\* the entries written and the errors reported, pair by pair; zip() stops
\* at the shorter list.  ZipFile.writestr appends an entry even when the
\* name is already present, so the archive is a sequence of entries
ZipEntry(image, original_filename) ==
  [name |-> zip_entry_name(original_filename), data |-> image.src]

RECURSIVE zip_abort_from(_, _, _)
zip_abort_from(processed_images, original_filenames, k) ==
  IF k > Len(processed_images) \/ k > Len(original_filenames)
  THEN [entries |-> <<>>, errors |-> <<>>]
  ELSE IF processed_images[k].encodable
       THEN LET rest == zip_abort_from(processed_images, original_filenames,
                                       k + 1)
            IN [entries |-> <<ZipEntry(processed_images[k],
                                       original_filenames[k])>> \o rest.entries,
                errors |-> rest.errors]
       ELSE [entries |-> <<>>,
             errors |-> <<Err("zip_entry_error", original_filenames[k])>>]

create_zip_file_abort(processed_images, original_filenames) ==
  zip_abort_from(processed_images, original_filenames, 1)

RECURSIVE zip_from(_, _, _)
zip_from(processed_images, original_filenames, k) ==
  IF k > Len(processed_images) \/ k > Len(original_filenames)
  THEN [entries |-> <<>>, errors |-> <<>>]
  ELSE LET rest == zip_from(processed_images, original_filenames, k + 1)
       IN IF processed_images[k].encodable
          THEN [entries |-> <<ZipEntry(processed_images[k],
                                       original_filenames[k])>> \o rest.entries,
                errors |-> rest.errors]
          ELSE [entries |-> rest.entries,
                errors |-> <<Err("zip_entry_error", original_filenames[k])>>
                           \o rest.errors]

create_zip_file(processed_images, original_filenames) ==
  zip_from(processed_images, original_filenames, 1)

\* ------------------------------------------------------------------ state
VARIABLES
  REMBG_AVAILABLE,    \* the rembg import succeeded (fixed for the process)
  session_state,      \* st.session_state of each user session
  sessions_created,   \* per user session, how often new_session returned
  last_load,          \* the latest load_model call: None or Some(record)
  last_psi,           \* the latest process_single_image call, likewise
  pc,                 \* position of the script run
  run_user,           \* the user session the script run belongs to
  uploaded_file,      \* tab 1 uploader: None or Some(name)
  uploaded_files,     \* tab 2 uploader: sequence of names
  button,             \* "Process All Images" was clicked
  phase,              \* state of the batch path
  errors,             \* st.error messages of this run, in order
  single_result,      \* what tab 1 showed
  i,                  \* number of batch items consumed
  processed_images, original_filenames, failed_files,
  progress,           \* progress signals emitted, in order
  attempts,           \* indices of the items handed to Image.open, in order
  summary,            \* success message and failure warning after the loop
  zip_buffer,         \* None or Some(entries of the archive)
  download            \* batch download button: None or Some(record)

vars == <<REMBG_AVAILABLE, session_state, sessions_created, last_load,
          last_psi, pc, run_user, uploaded_file, uploaded_files, button,
          phase, errors, single_result, i, processed_images,
          original_filenames, failed_files, progress, attempts, summary,
          zip_buffer, download>>

process_vars == <<REMBG_AVAILABLE, session_state, sessions_created>>
input_vars == <<run_user, uploaded_file, uploaded_files, button>>
batch_vars == <<i, processed_images, original_filenames, failed_files,
                progress, attempts, summary, zip_buffer, download>>

NoSingle == [status |-> "none", file_name |-> None]

\* module level: session_state gets its two keys when they are missing
InitSessionState == [model_loaded |-> FALSE, session |-> None]

RunCleared ==
  /\ phase = "Idle"
  /\ errors = <<>>
  /\ single_result = NoSingle
  /\ i = 0
  /\ processed_images = <<>>
  /\ original_filenames = <<>>
  /\ failed_files = <<>>
  /\ progress = <<>>
  /\ attempts = <<>>
  /\ summary = None
  /\ zip_buffer = None
  /\ download = None
  /\ last_load = None
  /\ last_psi = None

Init ==
  /\ REMBG_AVAILABLE \in BOOLEAN
  /\ session_state = [u \in Users |-> InitSessionState]
  /\ sessions_created = [u \in Users |-> 0]
  /\ pc = "idle"
  /\ run_user = 1
  /\ uploaded_file = None
  /\ uploaded_files = <<>>
  /\ button = FALSE
  /\ RunCleared

\* the object a successful new_session call of user session u returns
NewHandle(u) == <<u, sessions_created[u] + 1>>

\* new_session can return only while the cap on created sessions allows
CanCreate(u, new_ok) == new_ok => sessions_created[u] < MaxCreate

LoadRecord(before, lm) ==
  [had |-> before.session # None, ret |-> lm.ret,
   same |-> lm.ss.session = before.session, created |-> lm.created]

PsiRecord(r) ==
  [called |-> r.call.called, session |-> r.call.session,
   mode |-> r.call.mode, load_ret |-> r.load.ret, exc |-> r.exc,
   ret_none |-> r.ret = None]

\* ------------------------------------------- calls from an importing module
\* load_model() called directly, between script runs
CallLoadModel(u) ==
  /\ pc = "idle"
  /\ \E new_ok \in BOOLEAN :
       /\ CanCreate(u, new_ok)
       /\ LET lm == load_model(session_state[u], REMBG_AVAILABLE, new_ok,
                               NewHandle(u))
          IN /\ session_state' = [session_state EXCEPT ![u] = lm.ss]
             /\ sessions_created' =
                  [sessions_created EXCEPT
                     ![u] = IF lm.created THEN @ + 1 ELSE @]
             /\ last_load' = Some(LoadRecord(session_state[u], lm))
  /\ UNCHANGED <<REMBG_AVAILABLE, last_psi, pc, input_vars, phase, errors,
                 single_result, batch_vars>>

\* process_single_image(image) called directly, between script runs
CallProcessSingleImage(u) ==
  /\ pc = "idle"
  /\ \E new_ok \in BOOLEAN, mode \in Modes, out \in RemoveOutcomes :
       /\ CanCreate(u, new_ok)
       /\ LET r == process_single_image(session_state[u], REMBG_AVAILABLE,
                     new_ok, NewHandle(u), [src |-> 0, mode |-> mode], out)
          IN /\ session_state' = [session_state EXCEPT ![u] = r.ss]
             /\ sessions_created' =
                  [sessions_created EXCEPT
                     ![u] = IF r.created THEN @ + 1 ELSE @]
             /\ last_load' = Some(r.load)
             /\ last_psi' = Some(PsiRecord(r))
  /\ UNCHANGED <<REMBG_AVAILABLE, pc, input_vars, phase, errors,
                 single_result, batch_vars>>

\* ------------------------------------------------------- the script run
\* a user interaction starts a run of the script for that user session
Rerun(u, f, fs, b) ==
  /\ pc = "idle"
  /\ b => fs # <<>>
  /\ pc' = "startup"
  /\ run_user' = u
  /\ uploaded_file' = f
  /\ uploaded_files' = fs
  /\ button' = b
  /\ phase' = "Idle"
  /\ errors' = <<>>
  /\ single_result' = NoSingle
  /\ i' = 0
  /\ processed_images' = <<>>
  /\ original_filenames' = <<>>
  /\ failed_files' = <<>>
  /\ progress' = <<>>
  /\ attempts' = <<>>
  /\ summary' = None
  /\ zip_buffer' = None
  /\ download' = None
  /\ last_load' = None
  /\ last_psi' = None
  /\ UNCHANGED process_vars

\* main(), up to the tabs: dependency check and first-run model load
Startup ==
  /\ pc = "startup"
  /\ \E new_ok \in BOOLEAN :
       /\ CanCreate(run_user, new_ok)
       /\ LET u == run_user
              ss == session_state[u]
              lm == load_model(ss, REMBG_AVAILABLE, new_ok, NewHandle(u))
          IN IF ~REMBG_AVAILABLE
             THEN /\ errors' = Append(errors, Err("dependency_unavailable", None))
                  /\ pc' = "done"
                  /\ UNCHANGED <<session_state, sessions_created, last_load,
                                 phase>>
             ELSE IF ~ss.model_loaded
                  THEN /\ phase' = "LoadingModel"
                       /\ last_load' = Some(LoadRecord(ss, lm))
                       /\ sessions_created' =
                            [sessions_created EXCEPT
                               ![u] = IF lm.created THEN @ + 1 ELSE @]
                       /\ IF lm.ret
                          THEN /\ session_state' =
                                    [session_state EXCEPT
                                       ![u] = [lm.ss EXCEPT
                                                 !.model_loaded = TRUE]]
                               /\ errors' = errors \o lm.errors
                               /\ pc' = "tab1"
                          ELSE /\ session_state' =
                                    [session_state EXCEPT ![u] = lm.ss]
                               /\ errors' = errors \o lm.errors \o
                                    <<Err("model_load_failed", None)>>
                               /\ pc' = "done"
                  ELSE /\ pc' = "tab1"
                       /\ UNCHANGED <<session_state, sessions_created,
                                      last_load, phase, errors>>
  /\ UNCHANGED <<REMBG_AVAILABLE, last_psi, input_vars, single_result,
                 batch_vars>>

\* effect of one process_single_image call on the process state
ApplyPsi(u, r) ==
  /\ session_state' = [session_state EXCEPT ![u] = r.ss]
  /\ sessions_created' =
       [sessions_created EXCEPT ![u] = IF r.created THEN @ + 1 ELSE @]
  /\ last_load' = Some(r.load)
  /\ last_psi' = Some(PsiRecord(r))

\* tab 1: decode the upload (a failure stops the script), process it,
\* encode the result and offer it for download
Tab1 ==
  /\ pc = "tab1"
  /\ IF uploaded_file = None
     THEN /\ pc' = "tab2"
          /\ UNCHANGED <<session_state, sessions_created, last_load,
                         last_psi, errors, single_result>>
     ELSE \E dec \in DecodeOutcomes, out \in RemoveOutcomes,
             new_ok \in BOOLEAN :
            /\ CanCreate(run_user, new_ok)
            /\ LET u == run_user
                   name == uploaded_file[1]
                   r == process_single_image(session_state[u],
                          REMBG_AVAILABLE, new_ok, NewHandle(u),
                          [src |-> 0, mode |-> dec], out)
               IN IF dec = "corrupt"
                  THEN /\ errors' = Append(errors, Err("single_decode", None))
                       /\ single_result' =
                            [status |-> "stopped", file_name |-> None]
                       /\ pc' = "done"
                       /\ UNCHANGED <<session_state, sessions_created,
                                      last_load, last_psi>>
                  ELSE /\ ApplyPsi(u, r)
                       /\ pc' = "tab2"
                       /\ IF r.ret = None
                          THEN /\ errors' = errors \o r.errors \o
                                    <<Err("single_failed", None)>>
                               /\ single_result' =
                                    [status |-> "failed", file_name |-> None]
                          ELSE IF ~r.ret[1].encodable
                               THEN /\ errors' = errors \o r.errors \o
                                         <<Err("single_exception", None)>>
                                    /\ single_result' =
                                         [status |-> "failed",
                                          file_name |-> None]
                               ELSE /\ errors' = errors \o r.errors
                                    /\ single_result' =
                                         [status |-> "offered",
                                          file_name |->
                                            Some(single_download_name(name))]
  /\ UNCHANGED <<REMBG_AVAILABLE, input_vars, phase, batch_vars>>

\* the for loop: the position after idx of n items have been consumed
enumerate_short(idx, n) ==
  IF idx + 1 < n THEN "loop_progress" ELSE "after_loop"

enumerate_next(idx, n) ==
  IF idx < n THEN "loop_progress" ELSE "after_loop"

\* tab 2: nothing to do without files and a click; else start the loop
\* (the advisory warning for more than 10 files changes no state modelled
\* here and lies beyond MaxBatch)
Tab2 ==
  /\ pc = "tab2"
  /\ IF uploaded_files = <<>> \/ ~button
     THEN /\ pc' = "done"
          /\ UNCHANGED phase
     ELSE /\ phase' = "Processing"
          /\ pc' = enumerate_next(0, Len(uploaded_files))
  /\ UNCHANGED <<process_vars, last_load, last_psi, input_vars, errors,
                 single_result, batch_vars>>

\* progress bar value and status text for the item at 0-based index idx
progress_signal_zero_based(idx, n, name) ==
  [index |-> idx, total |-> n, name |-> name, fraction |-> <<idx, n>>]

progress_signal(idx, n, name) ==
  [index |-> idx + 1, total |-> n, name |-> name, fraction |-> <<idx + 1, n>>]

\* head of the loop body: update progress
LoopProgress ==
  /\ pc = "loop_progress"
  /\ progress' = Append(progress,
       progress_signal(i, Len(uploaded_files), uploaded_files[i + 1]))
  /\ pc' = "loop_item"
  /\ UNCHANGED <<process_vars, last_load, last_psi, input_vars, phase, errors,
                 single_result, i, processed_images, original_filenames,
                 failed_files, attempts, summary, zip_buffer, download>>

\* rest of the loop body on the lists acc: decode, process, record
batch_item_drop(acc, name, dec, r) ==
  IF dec = "corrupt"
  THEN [acc EXCEPT !.errors = Append(@, Err("batch_item_failed", name))]
  ELSE IF r.ret # None
       THEN [acc EXCEPT !.processed_images = Append(@, r.ret[1]),
                        !.original_filenames = Append(@, name),
                        !.errors = @ \o r.errors]
       ELSE [acc EXCEPT !.failed_files = Append(@, name),
                        !.errors = @ \o r.errors]

batch_item_front(acc, name, dec, r) ==
  IF dec = "corrupt"
  THEN [acc EXCEPT !.failed_files = Append(@, name),
                   !.errors = Append(@, Err("batch_item_failed", name))]
  ELSE IF r.ret # None
       THEN [acc EXCEPT !.processed_images = <<r.ret[1]>> \o @,
                        !.original_filenames = <<name>> \o @,
                        !.errors = @ \o r.errors]
       ELSE [acc EXCEPT !.failed_files = Append(@, name),
                        !.errors = @ \o r.errors]

batch_item(acc, name, dec, r) ==
  IF dec = "corrupt"
  THEN [acc EXCEPT !.failed_files = Append(@, name),
                   !.errors = Append(@, Err("batch_item_failed", name))]
  ELSE IF r.ret # None
       THEN [acc EXCEPT !.processed_images = Append(@, r.ret[1]),
                        !.original_filenames = Append(@, name),
                        !.errors = @ \o r.errors]
       ELSE [acc EXCEPT !.failed_files = Append(@, name),
                        !.errors = @ \o r.errors]

LoopItem ==
  /\ pc = "loop_item"
  /\ \E dec \in DecodeOutcomes, out \in RemoveOutcomes, new_ok \in BOOLEAN :
       /\ CanCreate(run_user, new_ok)
       /\ LET u == run_user
              name == uploaded_files[i + 1]
              r == process_single_image(session_state[u], REMBG_AVAILABLE,
                     new_ok, NewHandle(u), [src |-> i + 1, mode |-> dec], out)
              acc == [processed_images |-> processed_images,
                      original_filenames |-> original_filenames,
                      failed_files |-> failed_files,
                      errors |-> errors]
              new == batch_item(acc, name, dec, r)
          IN /\ attempts' = Append(attempts, i + 1)
             /\ IF dec = "corrupt"
                THEN UNCHANGED <<session_state, sessions_created, last_load,
                                 last_psi>>
                ELSE ApplyPsi(u, r)
             /\ processed_images' = new.processed_images
             /\ original_filenames' = new.original_filenames
             /\ failed_files' = new.failed_files
             /\ errors' = new.errors
  /\ i' = i + 1
  /\ pc' = enumerate_next(i + 1, Len(uploaded_files))
  /\ UNCHANGED <<REMBG_AVAILABLE, input_vars, phase, single_result, progress,
                 summary, zip_buffer, download>>

\* after the loop: with results, report and go on to packaging; without,
\* report that nothing was processed
after_loop_wrong(images, failed, n) ==
  IF failed = <<>>
  THEN [packaging |-> TRUE,
        summary |-> Some([ok |-> Len(images), total |-> n, failed |-> failed]),
        errors |-> <<>>]
  ELSE [packaging |-> FALSE, summary |-> None,
        errors |-> <<Err("batch_none", None)>>]

after_loop(images, failed, n) ==
  IF images # <<>>
  THEN [packaging |-> TRUE,
        summary |-> Some([ok |-> Len(images), total |-> n, failed |-> failed]),
        errors |-> <<>>]
  ELSE [packaging |-> FALSE, summary |-> None,
        errors |-> <<Err("batch_none", None)>>]

AfterLoop ==
  /\ pc = "after_loop"
  /\ LET a == after_loop(processed_images, failed_files, Len(uploaded_files))
     IN /\ summary' = a.summary
        /\ errors' = errors \o a.errors
        /\ phase' = IF a.packaging THEN "Packaging" ELSE "Failed"
        /\ pc' = IF a.packaging THEN "package" ELSE "done"
  /\ UNCHANGED <<process_vars, last_load, last_psi, input_vars,
                 single_result, i, processed_images, original_filenames,
                 failed_files, progress, attempts, zip_buffer, download>>

\* build the archive and offer it; the label counts the processed images
Package ==
  /\ pc = "package"
  /\ LET z == create_zip_file(processed_images, original_filenames)
     IN /\ zip_buffer' = Some(z.entries)
        /\ errors' = errors \o z.errors
        /\ download' = Some([label_count |-> Len(processed_images),
                             data |-> z.entries])
  /\ phase' = "Ready"
  /\ pc' = "done"
  /\ UNCHANGED <<process_vars, last_load, last_psi, input_vars,
                 single_result, i, processed_images, original_filenames,
                 failed_files, progress, attempts, summary>>

\* main() returns: the run's local values are gone, the page waits for the
\* next interaction
Return ==
  /\ pc = "done"
  /\ pc' = "idle"
  /\ run_user' = 1
  /\ uploaded_file' = None
  /\ uploaded_files' = <<>>
  /\ button' = FALSE
  /\ phase' = "Idle"
  /\ errors' = <<>>
  /\ single_result' = NoSingle
  /\ i' = 0
  /\ processed_images' = <<>>
  /\ original_filenames' = <<>>
  /\ failed_files' = <<>>
  /\ progress' = <<>>
  /\ attempts' = <<>>
  /\ summary' = None
  /\ zip_buffer' = None
  /\ download' = None
  /\ last_load' = None
  /\ last_psi' = None
  /\ UNCHANGED process_vars

Next ==
  \/ \E u \in Users : CallLoadModel(u)
  \/ \E u \in Users : CallProcessSingleImage(u)
  \/ \E u \in Users, f \in {None} \cup {Some(x) : x \in FileNames},
        fs \in SeqsUpTo(FileNames, MaxBatch), b \in BOOLEAN :
       Rerun(u, f, fs, b)
  \/ Startup
  \/ Tab1
  \/ Tab2
  \/ LoopProgress
  \/ LoopItem
  \/ AfterLoop
  \/ Package
  \/ Return

Spec == Init /\ [][Next]_vars

\* ------------------------------------------------ the naming rule alone
\* both download names computed for one uploaded name, for every accepted
\* name whose stem is over Alphabet and at most MaxNameLen long
InitNaming ==
  /\ REMBG_AVAILABLE = TRUE
  /\ session_state = [u \in Users |-> InitSessionState]
  /\ sessions_created = [u \in Users |-> 0]
  /\ pc = "naming"
  /\ run_user = 1
  /\ uploaded_file \in {Some(x) : x \in AllNames}
  /\ uploaded_files = <<>>
  /\ button = FALSE
  /\ RunCleared

\* the file_name argument of the single-image download button
NameSingle ==
  /\ pc = "naming"
  /\ single_result.status = "none"
  /\ single_result' = [status |-> "offered",
                       file_name |-> Some(single_download_name(uploaded_file[1]))]
  /\ UNCHANGED <<process_vars, last_load, last_psi, pc, input_vars, phase,
                 errors, batch_vars>>

\* the archive create_zip_file builds for one image of that name
NameBatch ==
  /\ pc = "naming"
  /\ zip_buffer = None
  /\ zip_buffer' = Some(create_zip_file(<<[src |-> 1, encodable |-> TRUE]>>,
                                        <<uploaded_file[1]>>).entries)
  /\ UNCHANGED <<process_vars, last_load, last_psi, pc, input_vars, phase,
                 errors, single_result, i, processed_images,
                 original_filenames, failed_files, progress, attempts,
                 summary, download>>

NextNaming == NameSingle \/ NameBatch

SpecNaming == InitNaming /\ [][NextNaming]_vars

\* ============================================================ properties
AfterLoopPhases == {"Packaging", "Ready", "Failed"}

\* source index of each processed image, in list order
Srcs == [k \in 1..Len(processed_images) |-> processed_images[k].src]

SrcSet == {processed_images[k].src : k \in 1..Len(processed_images)}

\* the elements of a finite set of integers as an increasing sequence
Ascending(S) ==
  CHOOSE f \in [1..Cardinality(S) -> S] :
    \A a, b \in 1..Cardinality(S) : a < b => f[a] < f[b]

HasError(tag) == \E k \in 1..Len(errors) : errors[k].tag = tag

CountErrors(tag) == Cardinality({k \in 1..Len(errors) : errors[k].tag = tag})

\* C1: every consumed batch item is in exactly one of the succeeded and
\* failed lists, so once the loop has consumed all items the two lengths
\* add up to the number of uploaded items
C1_EachItemInOneList ==
  /\ Len(processed_images) = Len(original_filenames)
  /\ Cardinality(SrcSet) = Len(processed_images)
  /\ SrcSet \subseteq 1..i
  /\ Len(processed_images) + Len(failed_files) = i
  /\ phase \in AfterLoopPhases =>
       /\ i = Len(uploaded_files)
       /\ Len(processed_images) + Len(failed_files) = Len(uploaded_files)

C1_Witness ==
  /\ pc = "done"
  /\ phase = "Ready"
  /\ Len(uploaded_files) = 2
  /\ Len(processed_images) = 1
  /\ Len(failed_files) = 1

\* C2: a failed item never ends the loop: the items are handed to the
\* decoder one by one in input order, each recorded before the next is
\* started, and the loop is left only when every item has been attempted
C2_AllAttemptedInOrder ==
  /\ attempts = [k \in 1..i |-> k]
  /\ i <= Len(uploaded_files)
  /\ pc = "loop_item" => i < Len(uploaded_files)
  /\ Len(attempts) = Len(processed_images) + Len(failed_files)
  /\ phase \in AfterLoopPhases =>
       attempts = [k \in 1..Len(uploaded_files) |-> k]

C2_Witness ==
  /\ pc = "done"
  /\ attempts = <<1, 2>>
  /\ failed_files # <<>>
  /\ processed_images # <<>>
  /\ processed_images[1].src = 2

\* C3: the succeeded names are the uploaded names of the succeeded items in
\* input order, paired index by index with their images, and the failed
\* names are the uploaded names of the other consumed items in input order
C3_OrderPreserved ==
  /\ Len(original_filenames) = Len(processed_images)
  /\ \A k \in 1..Len(processed_images) :
       /\ Srcs[k] \in 1..i
       /\ original_filenames[k] = uploaded_files[Srcs[k]]
  /\ \A a, b \in 1..Len(processed_images) : a < b => Srcs[a] < Srcs[b]
  /\ LET failedIdx == (1..i) \ SrcSet
         order == Ascending(failedIdx)
     IN failed_files = [k \in 1..Cardinality(failedIdx) |->
                          uploaded_files[order[k]]]

C3_Witness ==
  /\ pc = "done"
  /\ Len(processed_images) = 2
  /\ original_filenames[1] # original_filenames[2]

\* C4: within a run the batch state only moves forward along
\* Idle -> LoadingModel -> Processing -> Packaging -> Ready | Failed
\* (LoadingModel is passed over when the model is already loaded); Failed
\* means nothing succeeded and no archive exists, Ready means something
\* succeeded and an archive is offered, whatever items failed
PhaseEdges ==
  {<<"Idle", "LoadingModel">>, <<"Idle", "Processing">>,
   <<"LoadingModel", "Processing">>, <<"Processing", "Packaging">>,
   <<"Processing", "Failed">>, <<"Packaging", "Ready">>}

BatchOutcome ==
  /\ phase = "Failed" =>
       /\ processed_images = <<>>
       /\ zip_buffer = None
       /\ download = None
       /\ HasError("batch_none")
  /\ phase = "Packaging" => processed_images # <<>>
  /\ phase = "Ready" =>
       /\ processed_images # <<>>
       /\ zip_buffer # None
       /\ download # None
       /\ ~HasError("batch_none")
  /\ (pc = "done" /\ i > 0) =>
       /\ phase \in {"Ready", "Failed"}
       /\ phase = "Failed" <=> processed_images = <<>>

C4_StateMachine ==
  [][/\ BatchOutcome'
     /\ (pc' # "idle" /\ phase' # phase) => <<phase, phase'>> \in PhaseEdges
     /\ (phase = "Processing" /\ phase' = "Processing") => i' >= i]_vars

C4_Witness ==
  /\ pc = "done"
  /\ phase = "Ready"
  /\ failed_files # <<>>
  /\ download # None

\* C5 as stated: one model session per process at most
TotalCreated ==
  LET RECURSIVE Sum(_)
      Sum(S) == IF S = {} THEN 0
                ELSE LET u == CHOOSE x \in S : TRUE
                     IN sessions_created[u] + Sum(S \ {u})
  IN Sum(Users)

C5_OneSessionPerProcess == TotalCreated <= 1

\* C5: within each user session the model session is created at most once,
\* and a load_model call made while it exists succeeds, keeps the handle and
\* creates nothing
C5_OneSessionPerUserSession ==
  /\ \A u \in Users :
       /\ sessions_created[u] <= 1
       /\ session_state[u].session # None <=> sessions_created[u] = 1
       /\ session_state[u].session # None =>
            session_state[u].session = <<u, 1>>
  /\ (last_load # None /\ last_load[1].had) =>
       /\ last_load[1].ret
       /\ last_load[1].same
       /\ ~last_load[1].created

C5_Witness ==
  /\ pc = "idle"
  /\ last_load # None
  /\ last_load[1].had
  /\ \A u \in Users : sessions_created[u] = 1

\* C6 as stated: unless the dependency is missing or the model fails to
\* load, a run handles both tabs: with files uploaded and the button
\* clicked the batch is brought to its end
FatalError ==
  HasError("dependency_unavailable") \/ HasError("model_load_failed")

C6_PerItemErrorsIsolated ==
  (pc = "done" /\ button /\ ~FatalError) => phase \in {"Ready", "Failed"}

\* C7: the archive holds, in order, one entry for each pair whose image
\* encodes, named by the entry naming rule from that pair's name and holding
\* that pair's image; each pair that does not encode is reported and
\* skipped; when all encode the label's count is the number of entries
EncodableIdx ==
  {k \in 1..Len(processed_images) : processed_images[k].encodable}

C7_ArchiveRoundTrip ==
  (zip_buffer # None /\ download # None) =>
    LET entries == zip_buffer[1]
        order == Ascending(EncodableIdx)
    IN /\ Len(entries) = Cardinality(EncodableIdx)
       /\ \A j \in 1..Len(entries) :
            /\ entries[j].name = zip_entry_name(original_filenames[order[j]])
            /\ entries[j].data = processed_images[order[j]].src
       /\ CountErrors("zip_entry_error") =
            Len(processed_images) - Cardinality(EncodableIdx)
       /\ download[1].data = entries
       /\ download[1].label_count = Len(processed_images)
       /\ EncodableIdx = 1..Len(processed_images) =>
            download[1].label_count = Len(entries)

C7_Witness ==
  /\ zip_buffer # None
  /\ download # None
  /\ Len(processed_images) = 2
  /\ ~processed_images[1].encodable
  /\ Len(zip_buffer[1]) = 1

\* C8 as stated: the single-image download name and the archive entry name
\* for the same uploaded name are the same name
C8_SameNameOnBothPaths ==
  (single_result.status = "offered" /\ zip_buffer # None /\ pc = "naming") =>
    /\ Len(zip_buffer[1]) = 1
    /\ single_result.file_name[1] = zip_buffer[1][1].name

\* C9 as stated: a signal for an item exists only once the item has been
\* processed and recorded
C9_SignalAfterItem ==
  \A k \in 1..Len(progress) : progress[k].index <= i

\* C9: one signal per item, emitted at the head of the item's iteration,
\* before the item is decoded: it carries the 1-based index, the total, the
\* name and the fraction index/total, and the items are attempted all the same
C9_SignalBeforeItem ==
  /\ Len(progress) = IF pc = "loop_item" THEN i + 1 ELSE i
  /\ \A k \in 1..Len(progress) :
       progress[k] = [index |-> k, total |-> Len(uploaded_files),
                      name |-> uploaded_files[k],
                      fraction |-> <<k, Len(uploaded_files)>>]
  /\ attempts = [k \in 1..i |-> k]
  /\ pc = "loop_item" => Len(attempts) = Len(progress) - 1

C9_Witness ==
  /\ pc = "loop_item"
  /\ i = 1
  /\ Len(progress) = 2
  /\ Len(processed_images) + Len(failed_files) = 1

\* C10: process_single_image answers every failure with None, calls the
\* removal service only after load_model succeeded and then with an existing
\* session and an RGB image; model_loaded is set only with a session
C10_NoRaiseNoNoneSession ==
  /\ \A u \in Users :
       session_state[u].model_loaded => session_state[u].session # None
  /\ last_psi # None =>
       LET c == last_psi[1]
       IN /\ c.called => (c.load_ret /\ c.session # None /\ c.mode = "RGB")
          /\ ~c.load_ret => (~c.called /\ c.ret_none)
          /\ c.exc => c.ret_none

C10_Witness ==
  /\ last_psi # None
  /\ ~last_psi[1].load_ret
  /\ last_psi[1].ret_none
  /\ REMBG_AVAILABLE

====
